---- MODULE Spec2Model ----
(***************************************************************************)
(* Model of the TTS webhook service:                                       *)
(*   src/tts_service/main.py          the Flask webhook, cache and engines *)
(*   src/tts_service/rate_limiter.py  RateLimiter, APIKeyValidator,        *)
(*                                    SecurityMiddleware                   *)
(* Spec is the webhook service (receive_utterance, clear_cache and the     *)
(* file system under audio_files/).  SpecGate is the access control gate   *)
(* (check_request, is_allowed, get_reset_time, add_key, remove_key and the *)
(* clock read by time.time()).                                             *)
(* SpecKey is generate_cache_key on pairs of requests, SpecUsage the       *)
(* UsageTracker, SpecThreads receive_utterance and clear_cache run by      *)
(* concurrent threads, SpecLimiter is_allowed run by concurrent threads.   *)
(* SpecAvatar is the webhook with avatar_id in the payload, beside         *)
(*   src/tts_service/heygen_integration.py  bind_avatar_to_utterance       *)
(***************************************************************************)
EXTENDS Integers, Sequences, FiniteSets, TLC

\* ------------------------------------------------------------------ bounds
\* receive_utterance increments app_state["request_count"] without limit;
\* the model stops accepting webhook requests at this count.
MaxRequestCount == 2
\* time.time() is cut off at this tick.
MaxTime == 3
\* RateLimiter(max_requests, window_seconds): the constructor arguments are
\* drawn from 1..MaxCapacity and 1..MaxWindow.
MaxCapacity == 2
MaxWindow == 2
\* The length limit on utterances (max_length of sanitize_text, 5000 by
\* default), scaled down.
MaxLength == 2
\* UsageTracker.record_request is called at most this many times.
MaxRecords == 3

\* ------------------------------------------------------- webhook: domains
Absent == "<absent>"

\* Utterances are sequences of characters; " " is the whitespace character.
\* LongText is one character longer than MaxLength.
RECURSIVE Repeat(_, _)
Repeat(ch, n) == IF n = 0 THEN <<>> ELSE Append(Repeat(ch, n - 1), ch)
LongText == Repeat("a", MaxLength + 1)
Texts == { <<>>, <<" ">>, <<"h", "i">>, LongText }
Agents == {"bot1", "bot2"}
Timestamps == {1}
\* the names a request may put in payload["engine"]; "nonexistent" is not a
\* key of tts_engines.
EngineNames == {"gtts", "openai", "system", "nonexistent"}
VoiceTypes == {"neutral"}
Languages == {"en"}
Speeds == {10}

\* tts_engines: the registered engines, by name.
tts_engines == {"gtts", "openai", "system"}

\* Files under AUDIO_DIR: <<agent, timestamp, suffix>>.
Suffixes == {".mp3", ".wav", "_silent.wav"}
Paths == Agents \X Timestamps \X Suffixes
NoFile == "<no file>"
Silence == "<silence>"

Payloads ==
    [agent: Agents, utterance: Texts, timestamp: Timestamps,
     engine: EngineNames, voice_type: VoiceTypes, language: Languages,
     speed: Speeds]

VARIABLES
    cache,          \* app_state["cache"]: cache key -> path, a partial map
    request_count,  \* app_state["request_count"]
    files,          \* audio_files/: path -> what the file holds, or NoFile
    last,           \* the last operation: its request, its response and the
                    \* engines it invoked, in order; after DELETE /cache the
                    \* entries it removed, and after the request that follows
                    \* a DELETE /cache the removed entry of its key
    clock,            \* time.time()
    max_requests,     \* RateLimiter.max_requests
    window_seconds,   \* RateLimiter.window_seconds
    requests,         \* RateLimiter.requests: identifier -> deque of times
    valid_keys,       \* APIKeyValidator.valid_keys: key -> metadata
    require_api_key,  \* SecurityMiddleware.require_api_key
    gate,             \* the last call on the gate, with what it returned
    recent            \* per identifier, the times of the allowed calls that
                      \* lie in the trailing interval [clock - window_seconds,
                      \* clock]; kept apart from the deques
VARIABLES
    keyed           \* two requests and the cache keys computed for them
VARIABLES
    stats,          \* UsageTracker.stats: identifier -> counters
    usage,          \* the last call on the usage tracker and what it returned
    recorded        \* the arguments of the record_request calls, in order
VARIABLES
    callers         \* per thread, the is_allowed call it is running: the
                    \* statement it is at, its identifier, its now and what
                    \* its last call returned
VARIABLES
    handlers        \* per thread, the receive_utterance call it is running:
                    \* the statement it is at, its request, its locals and
                    \* how its last request ended
VARIABLES
    avatar          \* the avatar_id of the last webhook request, beside the
                    \* answer and the cache the same request gives without
                    \* avatar_id; and the last bind_avatar_to_utterance call
                    \* with what it returned

\* ------------------------------------------------------ webhook: helpers

\* str.strip(): drop leading and trailing whitespace.
RECURSIVE LStrip(_)
LStrip(s) == IF s # <<>> /\ Head(s) = " " THEN LStrip(Tail(s)) ELSE s
RECURSIVE RStrip(_)
RStrip(s) ==
    IF s # <<>> /\ s[Len(s)] = " " THEN RStrip(SubSeq(s, 1, Len(s) - 1)) ELSE s
Strip(s) == RStrip(LStrip(s))

\* line 225: not utterance or not utterance.strip()
IsEmptyUtterance_noStrip(utterance) == utterance = <<>>
IsEmptyUtterance(utterance) == utterance = <<>> \/ Strip(utterance) = <<>>

\* the options dict built at lines 234-241
Options(r) ==
    [agent |-> r.agent, timestamp |-> r.timestamp, engine |-> r.engine,
     voice_type |-> r.voice_type, language |-> r.language, speed |-> r.speed]

\* json.dumps(cache_data, sort_keys=True): the five entries in key order.
JsonDumps_noSpeed(cache_data) ==
    << <<"engine", cache_data.engine>>, <<"language", cache_data.language>>,
       <<"text", cache_data.text>>, <<"voice_type", cache_data.voice_type>> >>
JsonDumps(cache_data) ==
    << <<"engine", cache_data.engine>>, <<"language", cache_data.language>>,
       <<"speed", cache_data.speed>>, <<"text", cache_data.text>>,
       <<"voice_type", cache_data.voice_type>> >>

\* hashlib.md5(...).hexdigest(): a digest of its input, free of collisions
\* on the inputs of the model.
Md5HexDigest(data) == <<"md5", data>>

generate_cache_key(text, options) ==
    Md5HexDigest(JsonDumps(
        [text |-> text, engine |-> options.engine,
         voice_type |-> options.voice_type, language |-> options.language,
         speed |-> options.speed]))

KeyOf(r) == generate_cache_key(r.utterance, Options(r))

\* Path(p).exists()
Exists(fs, p) == fs[p] # NoFile

\* What an engine can do on one call: the network, the espeak binary and the
\* disk decide.  "ok": the audio is written; "silent": espeak fails and the
\* silent fallback file is written (system engine only); "fail": the call
\* raises.
Outcomes(engine) ==
    IF engine = "system" THEN {"ok", "silent", "fail"} ELSE {"ok", "fail"}

\* filename of lines 67, 110, 129 and 150
FileName(engine, options, outcome) ==
    <<options.agent, options.timestamp,
      IF engine = "system"
      THEN (IF outcome = "silent" THEN "_silent.wav" ELSE ".wav")
      ELSE ".mp3">>

\* engine.generate_audio(text, options): raised, the path returned and the
\* files afterwards.
generate_audio(engine, text, options, outcome, fs) ==
    IF outcome = "fail"
    THEN [raised |-> TRUE, path |-> Absent, files |-> fs]
    ELSE LET p == FileName(engine, options, outcome)
         IN [raised |-> FALSE, path |-> p,
             files |-> [fs EXCEPT ![p] =
                          IF outcome = "silent" THEN Silence ELSE text]]

\* lines 258-260: tts_engines.get(engine_name), else tts_engines["system"]
SelectEngine_asRequested(engine_name) == engine_name
SelectEngine(engine_name) ==
    IF engine_name \in tts_engines THEN engine_name ELSE "system"

\* line 267: the condition under which a failed engine is followed by the
\* system engine
FallbackAllowed_never(engine_name) == FALSE
FallbackAllowed(engine_name) == engine_name # "system"

\* lines 247-254: the cache lookup; the entry is evicted when its file is gone.
CacheLookup(c, fs, key) ==
    IF key \in DOMAIN c
    THEN IF Exists(fs, c[key])
         THEN [hit |-> TRUE, path |-> c[key], cache |-> c]
         ELSE [hit |-> FALSE, path |-> Absent,
               cache |-> [k \in DOMAIN c \ {key} |-> c[k]]]
    ELSE [hit |-> FALSE, path |-> Absent, cache |-> c]

\* line 353: app_state["cache"].clear()
CacheClear_keeps(c) == c
CacheClear(c) == << >>

\* app_state["cache"][cache_key] = audio_filepath
CachePut(c, key, p) ==
    [k \in DOMAIN c \cup {key} |-> IF k = key THEN p ELSE c[k]]

\* line 296: engine.name.  engine is a local of receive_utterance that is
\* assigned only inside "if not cache_hit"; on a hit the read raises
\* UnboundLocalError, caught at line 302.
EngineNameRaises(cache_hit) == cache_hit

Response(code, status, audio_file, engine_used, cache_hit) ==
    [code |-> code, status |-> status, audio_file |-> audio_file,
     engine_used |-> engine_used, cache_hit |-> cache_hit]

\* lines 306-312
Error500 == Response(500, "error", Absent, "none", Absent)
\* lines 226-229
Error400 == Response(400, "error", Absent, Absent, Absent)

\* one entry of the record of engine calls made by a request
Call(engine, res) == [engine |-> engine, raised |-> res.raised]

\* lines 256-273: the synthesis on a miss.  o1 is what the selected engine
\* does, o2 what the system engine does if it is called as the fallback.
Synthesize(r, c, fs, o1, o2) ==
    LET key == KeyOf(r)
        engine == SelectEngine(r.engine)
        first == generate_audio(engine, r.utterance, Options(r), o1, fs)
        second == generate_audio("system", r.utterance, Options(r), o2,
                                 first.files)
    IN  IF ~first.raised
        THEN [raised |-> FALSE, path |-> first.path, engine |-> engine,
              cache |-> CachePut(c, key, first.path), files |-> first.files,
              invoked |-> <<Call(engine, first)>>]
        ELSE IF FallbackAllowed(r.engine)
        THEN IF ~second.raised
             THEN [raised |-> FALSE, path |-> second.path,
                   engine |-> "system",
                   cache |-> CachePut(c, key, second.path),
                   files |-> second.files,
                   invoked |-> <<Call(engine, first), Call("system", second)>>]
             ELSE [raised |-> TRUE, path |-> Absent, engine |-> "system",
                   cache |-> c, files |-> second.files,
                   invoked |-> <<Call(engine, first), Call("system", second)>>]
        ELSE [raised |-> TRUE, path |-> Absent, engine |-> engine,
              cache |-> c, files |-> first.files,
              invoked |-> <<Call(engine, first)>>]

\* receive_utterance, lines 203-312, as a function of the request, the state
\* and what the engines do.
Handle(r, c, fs, o1, o2) ==
    IF IsEmptyUtterance(r.utterance)
    THEN [resp |-> Error400, cache |-> c, files |-> fs, invoked |-> <<>>,
          lookup |-> "none"]
    ELSE
    LET look == CacheLookup(c, fs, KeyOf(r))
    IN  IF look.hit
        THEN [resp |-> IF EngineNameRaises(TRUE) THEN Error500
                       ELSE Response(200, "success", look.path, Absent, TRUE),
              cache |-> look.cache, files |-> fs, invoked |-> <<>>,
              lookup |-> "hit"]
        ELSE LET syn == Synthesize(r, look.cache, fs, o1, o2)
             IN [resp |-> IF syn.raised THEN Error500
                          ELSE Response(200, "success", syn.path, syn.engine,
                                        FALSE),
                 cache |-> syn.cache, files |-> syn.files,
                 invoked |-> syn.invoked,
                 lookup |-> IF look.cache = c THEN "miss" ELSE "stale"]

\* ------------------------------------------------------------ gate: domains
None == "<none>"

\* API keys a client may send or an operator may add
ApiKeys == {"k1"}
\* request.client.host; the requests of the model all carry a client
Hosts == {"10.0.0.1"}
\* metadata dicts given to add_key, as sets of items; {} is the empty dict
Metadatas == { {}, {<<"tier", "free">>} }
\* the identifiers that can reach the rate limiter
Identifiers == ApiKeys \cup Hosts

\* ------------------------------------------------------------ gate: helpers

\* truth value of an optional string: None and "" are false
Truthy(str) == str # None /\ str # ""

\* self.requests[identifier] on the defaultdict(deque): the deque read
Window(reqs, identifier) ==
    IF identifier \in DOMAIN reqs THEN reqs[identifier] ELSE <<>>

\* the dict after self.requests[identifier] holds deque w (the read alone
\* inserts an empty deque for a missing identifier)
WithWindow(reqs, identifier, w) ==
    [i \in DOMAIN reqs \cup {identifier} |->
        IF i = identifier THEN w ELSE reqs[i]]

\* lines 41-42: popleft while the oldest timestamp is before window_start
RECURSIVE Prune(_, _)
Prune(w, window_start) ==
    IF w # <<>> /\ Head(w) < window_start
    THEN Prune(Tail(w), window_start)
    ELSE w

\* line 45: len(self.requests[identifier]) < self.max_requests
UnderLimit_inclusive(n, limit) == n <= limit
UnderLimit(n, limit) == n < limit

\* RateLimiter.is_allowed, lines 37-49
is_allowed_recording(reqs, identifier, now, limit, window) ==
    LET pruned == Prune(Window(reqs, identifier), now - window)
    IN  [allowed |-> UnderLimit(Len(pruned), limit),
         requests |-> WithWindow(reqs, identifier, Append(pruned, now))]
is_allowed(reqs, identifier, now, limit, window) ==
    LET pruned == Prune(Window(reqs, identifier), now - window)
    IN  IF UnderLimit(Len(pruned), limit)
        THEN [allowed |-> TRUE,
              requests |-> WithWindow(reqs, identifier, Append(pruned, now))]
        ELSE [allowed |-> FALSE,
              requests |-> WithWindow(reqs, identifier, pruned)]

\* RateLimiter.get_reset_time, lines 53-57: the value returned
get_reset_time(reqs, identifier, now, window) ==
    IF Window(reqs, identifier) = <<>>
    THEN 0
    ELSE Head(Window(reqs, identifier)) + window - now

\* APIKeyValidator.validate_key, line 79: dict.get; found is FALSE for None
validate_key(keys, api_key) ==
    IF api_key \in DOMAIN keys
    THEN [found |-> TRUE, metadata |-> keys[api_key]]
    ELSE [found |-> FALSE, metadata |-> {}]

\* line 130: not key_metadata; None and the empty dict are both false
KeyRejected_never(key_metadata) == FALSE
KeyRejected(key_metadata) ==
    ~key_metadata.found \/ key_metadata.metadata = {}

\* line 120
ClientIp(client) == IF client = None THEN "unknown" ELSE client

\* line 121: headers.get("X-API-Key") or query_params.get("api_key")
ApiKeyOf(header, query) == IF Truthy(header) THEN header ELSE query

\* line 124: api_key if api_key else client_ip
SelectIdentifier_address(api_key, client_ip) == client_ip
SelectIdentifier(api_key, client_ip) ==
    IF Truthy(api_key) THEN api_key ELSE client_ip

\* lines 126-135: the HTTPException(401) is raised before line 138 calls
\* is_allowed, so the deques are those found; verdict is what is_allowed
\* would have made of them.
RequestsOnReject_limited(reqs, verdict) == verdict.requests
RequestsOnReject(reqs, verdict) == reqs

GateResult(op, code, detail, client_ip, api_key, identifier, at, reset) ==
    [op |-> op, code |-> code, detail |-> detail, client_ip |-> client_ip,
     api_key |-> api_key, identifier |-> identifier, at |-> at,
     reset_time |-> reset]

\* SecurityMiddleware.check_request, lines 119-151.  now: the time read by
\* is_allowed; later: the time read by get_reset_time after a denial.
check_request(client, header, query, keys, required, reqs, now, later, limit, window) ==
    LET client_ip == ClientIp(client)
        api_key == ApiKeyOf(header, query)
        identifier == SelectIdentifier(api_key, client_ip)
        key_metadata == validate_key(keys, api_key)
        verdict == is_allowed(reqs, identifier, now, limit, window)
        Result(code, detail, reset) ==
            GateResult("check_request", code, detail, client_ip, api_key,
                       identifier, now, reset)
    IN  IF Truthy(api_key) /\ KeyRejected(key_metadata)
        THEN [result |-> Result(401, "Invalid API key", 0),
              requests |-> RequestsOnReject(reqs, verdict),
              allowed |-> FALSE, time |-> now]
        ELSE IF ~Truthy(api_key) /\ required
        THEN [result |-> Result(401, "API key required", 0),
              requests |-> RequestsOnReject(reqs, verdict),
              allowed |-> FALSE, time |-> now]
        ELSE IF ~verdict.allowed
        THEN [result |-> Result(429, "Rate limit exceeded",
                    get_reset_time(verdict.requests, identifier, later,
                                   window)),
              requests |-> verdict.requests, allowed |-> FALSE,
              time |-> later]
        ELSE [result |-> Result(200, "ok", 0), requests |-> verdict.requests,
              allowed |-> TRUE, time |-> now]

\* the allowed times of the trailing interval that ends at time now
Trailing(log, now, window) ==
    [i \in DOMAIN log |-> SelectSeq(log[i], LAMBDA t : t >= now - window)]

\* --------------------------------------------------- usage tracker: helpers

\* the character counts passed to record_request
CharacterCounts == {1, 2}

\* lines 207-213: the entry the defaultdict makes for a missing identifier
NewStats ==
    [requests |-> 0, characters |-> 0, audio_files |-> 0, errors |-> 0,
     last_request |-> None]

\* self.stats[identifier]: the entry read
StatsOf(st, identifier) ==
    IF identifier \in DOMAIN st THEN st[identifier] ELSE NewStats

\* self.stats after self.stats[identifier] was read and set to entry; the
\* read alone inserts NewStats for a missing identifier
WithStats(st, identifier, entry) ==
    [i \in DOMAIN st \cup {identifier} |->
        IF i = identifier THEN entry ELSE st[i]]

\* lines 222-225: a counter that is incremented under a condition
CountIf_always(n, condition) == n + 1
CountIf(n, condition) == IF condition THEN n + 1 ELSE n

\* UsageTracker.record_request, lines 215-225
record_request(st, identifier, character_count, success, now) ==
    LET old == StatsOf(st, identifier)
    IN  WithStats(st, identifier,
            [requests |-> old.requests + 1,
             characters |-> old.characters + character_count,
             audio_files |-> CountIf(old.audio_files, success),
             errors |-> CountIf(old.errors, ~success),
             last_request |-> now])

\* UsageTracker.get_stats, lines 227-229: the copy returned and the table
\* afterwards
get_stats(st, identifier) ==
    [returned |-> StatsOf(st, identifier),
     stats |-> WithStats(st, identifier, StatsOf(st, identifier))]

\* UsageTracker.get_all_stats, lines 231-233
get_all_stats(st) == [returned |-> st, stats |-> st]

\* ---------------------------------------------------------- avatar: helpers

\* payload.get('avatar_id'), and the avatar_id of utterance_data
AvatarIds == {None, "", "av1"}

\* main.py lines 285-288: the avatar dispatch of receive_utterance, a log
\* line written when avatar_id is given; it does not raise
DispatchAvatar(avatar_id) == [raised |-> FALSE, logged |-> Truthy(avatar_id)]

\* receive_utterance for a payload that carries avatar_id: line 286 is
\* reached unless the request was answered 400 or the synthesis raised
receive_utterance(r, avatar_id, c, fs, o1, o2) ==
    LET h == Handle(r, c, fs, o1, o2)
        reached == h.lookup = "hit" \/ h.resp.code = 200
    IN  IF reached /\ DispatchAvatar(avatar_id).raised
        THEN [h EXCEPT !.resp = Error500]
        ELSE h

\* what the HeyGen service does with POST /v2/video/generate: it accepts
\* with a JSON object (that may carry an "error" item), accepts with a JSON
\* list, accepts with a body that is not JSON, answers another status code,
\* or the connection fails
ServiceOutcomes ==
    {"accepted", "accepted_error_item", "accepted_list", "accepted_no_json",
     "http_error", "connection_fails"}

\* the outcomes in which the avatar service fails or raises
ServiceFails == {"accepted_no_json", "http_error", "connection_fails"}

\* HeyGenAvatarService.create_avatar_video, heygen_integration.py lines
\* 42-86: ValueError without an API key; otherwise the body of a 200
\* answer, or {"error": ...} for another status and for any exception
create_avatar_video(has_api_key, service) ==
    IF ~has_api_key
    THEN [raised |-> TRUE, is_dict |-> FALSE, has_error |-> FALSE]
    ELSE IF service = "accepted"
    THEN [raised |-> FALSE, is_dict |-> TRUE, has_error |-> FALSE]
    ELSE IF service = "accepted_list"
    THEN [raised |-> FALSE, is_dict |-> FALSE, has_error |-> FALSE]
    ELSE [raised |-> FALSE, is_dict |-> TRUE, has_error |-> TRUE]

\* lines 189-207: the body of the try block of bind_avatar_to_utterance;
\* utterance_data['utterance'] raises KeyError without the item, and
\* result.get raises AttributeError on a list
BindBody(avatar_id, has_utterance, has_api_key, service) ==
    LET result == create_avatar_video(has_api_key, service)
    IN  IF ~Truthy(avatar_id) THEN [raised |-> FALSE, status |-> "skipped"]
        ELSE IF ~has_utterance THEN [raised |-> TRUE, status |-> "none"]
        ELSE IF result.raised THEN [raised |-> TRUE, status |-> "none"]
        ELSE IF result.has_error THEN [raised |-> FALSE, status |-> "error"]
        ELSE IF ~result.is_dict THEN [raised |-> TRUE, status |-> "none"]
        ELSE [raised |-> FALSE, status |-> "success"]

\* lines 211-213: except Exception returns status error
ExceptException_reraise(body) == body
ExceptException(body) ==
    IF body.raised THEN [raised |-> FALSE, status |-> "error"] ELSE body

\* bind_avatar_to_utterance, lines 175-213
bind_avatar_to_utterance(avatar_id, has_utterance, has_api_key, service) ==
    ExceptException(BindBody(avatar_id, has_utterance, has_api_key, service))

\* ------------------------------------------------------------------ state
vars == <<cache, request_count, files, last, clock, max_requests,
          window_seconds, requests, valid_keys, require_api_key, gate, recent,
          keyed, stats, usage, recorded, callers, handlers,
          avatar>>
webhookVars == <<cache, request_count, files, last>>
gateVars == <<clock, max_requests, window_seconds, requests, valid_keys,
              require_api_key, gate, recent>>

\* what the actions of the webhook, and those of the gate, leave alone
usageVars == <<stats, usage, recorded>>
outsideWebhook == <<gateVars, keyed, usageVars, callers, handlers,
    avatar>>
outsideGate == <<webhookVars, keyed, usageVars, callers, handlers,
    avatar>>
outsideKey == <<webhookVars, gateVars, usageVars, callers, handlers,
    avatar>>
outsideUsage == <<webhookVars, gateVars, keyed, callers, handlers,
    avatar>>
outsideLimiter == <<webhookVars, keyed, usageVars, max_requests,
                    window_seconds, valid_keys, require_api_key, gate,
                    handlers, avatar>>
outsideHandlers == <<last, gateVars, keyed, usageVars, callers, avatar>>
outsideAvatar == <<gateVars, keyed, usageVars, callers, handlers>>

LastOp(op, req, resp, invoked, removed, recached, old_path) ==
    [op |-> op, req |-> req, resp |-> resp, invoked |-> invoked,
     removed |-> removed, recached |-> recached, old_path |-> old_path]

NoRequest == LastOp("none", Absent, Absent, <<>>, << >>, FALSE, Absent)
NoGateCall == GateResult("none", 0, "", None, None, None, 0, 0)

\* app_state at import time, lines 46-50, and an empty audio_files/
InitWebhook ==
    /\ cache = << >>
    /\ request_count = 0
    /\ files = [p \in Paths |-> NoFile]
    /\ last = NoRequest

\* SecurityMiddleware(RateLimiter(max_requests, window_seconds),
\* APIKeyValidator(), require_api_key) with the given arguments
InitGateWith(limit, window, required) ==
    /\ clock = 0
    /\ max_requests = limit
    /\ window_seconds = window
    /\ requests = << >>
    /\ valid_keys = << >>
    /\ require_api_key = required
    /\ gate = NoGateCall
    /\ recent = [i \in Identifiers |-> <<>>]

\* no cache key has been asked for
NoKeys == [a |-> Absent, b |-> Absent, key_a |-> Absent, key_b |-> Absent,
           done |-> FALSE]

\* UsageTracker(), lines 206-213
InitUsageTracker ==
    /\ stats = << >>
    /\ usage = [op |-> "none", identifier |-> None, returned |-> << >>]
    /\ recorded = << >>

\* the threads that call the rate limiter
Threads == {"t1", "t2"}

\* a thread that is not inside is_allowed
Idle(result) ==
    [pc |-> "idle", identifier |-> None, now |-> 0, result |-> result]

InitCallers == callers = [t \in Threads |-> Idle("none")]

\* a thread that is not inside receive_utterance; resp and raised tell how
\* its last request ended
Waiting(resp, raised) ==
    [pc |-> "idle", req |-> Absent, path |-> Absent, cache_hit |-> FALSE,
     resp |-> resp, raised |-> raised]

\* the thread has served no request yet
NoResponse == [code |-> 0]

InitHandlers == handlers = [t \in Threads |-> Waiting(NoResponse, "none")]

\* what is kept of an answer for comparison
Summary(resp) ==
    [code |-> resp.code, status |-> resp.status, cache_hit |-> resp.cache_hit]

\* the avatar_id of the last webhook request, with the answer and the cache
\* that the same request gives without avatar_id
AvatarRequest(called, avatar_id, plain, plain_cache) ==
    [called |-> called, avatar_id |-> avatar_id, plain |-> plain,
     plain_cache |-> plain_cache]

\* the last bind_avatar_to_utterance call and what it returned
AvatarBind(called, avatar_id, has_utterance, has_api_key, service, returned) ==
    [called |-> called, avatar_id |-> avatar_id,
     has_utterance |-> has_utterance, has_api_key |-> has_api_key,
     service |-> service, returned |-> returned]

\* no call has involved an avatar
InitAvatar ==
    avatar = [request |-> AvatarRequest(FALSE, None, Summary(Error400), << >>),
              bind |-> AvatarBind(FALSE, None, FALSE, FALSE, "accepted",
                                  [raised |-> FALSE, status |-> "skipped"])]

\* the parts of the state that a specification does not act on
InitIdle ==
    /\ keyed = NoKeys
    /\ InitUsageTracker
    /\ InitCallers
    /\ InitHandlers
    /\ InitAvatar

Init ==
    /\ InitWebhook
    /\ InitGateWith(MaxCapacity, MaxWindow, FALSE)
    /\ InitIdle

InitGate ==
    /\ InitWebhook
    /\ InitIdle
    /\ \E limit \in 1..MaxCapacity, window \in 1..MaxWindow,
          required \in BOOLEAN : InitGateWith(limit, window, required)

\* ------------------------------------------------------ webhook: actions

\* POST /webhook
ReceiveUtterance(r, o1, o2) ==
    /\ request_count < MaxRequestCount
    /\ LET h == Handle(r, cache, files, o1, o2)
       IN /\ cache' = h.cache
          /\ files' = h.files
          /\ last' = LET after == /\ last.op = "clear"
                                   /\ ~IsEmptyUtterance(r.utterance)
                                   /\ KeyOf(r) \in DOMAIN last.removed
                      IN LastOp("webhook", r, h.resp, h.invoked, << >>, after,
                                IF after THEN last.removed[KeyOf(r)]
                                ELSE Absent)
    /\ request_count' = request_count + 1
    /\ UNCHANGED outsideWebhook

\* DELETE /cache
ClearCache ==
    /\ cache # << >>
    /\ cache' = CacheClear(cache)
    /\ last' = LastOp("clear", Absent,
                      Response(200, "success", Absent, Absent, Absent), <<>>,
                      cache, FALSE, Absent)
    /\ UNCHANGED <<request_count, files>>
    /\ UNCHANGED outsideWebhook

\* a file under audio_files/ is deleted from outside the service
DeleteFile(p) ==
    /\ Exists(files, p)
    /\ files' = [files EXCEPT ![p] = NoFile]
    /\ UNCHANGED <<cache, request_count, last>>
    /\ UNCHANGED outsideWebhook

Next ==
    \/ \E r \in Payloads :
         \E o1 \in Outcomes(SelectEngine(r.engine)), o2 \in Outcomes("system") :
            ReceiveUtterance(r, o1, o2)
    \/ ClearCache
    \/ \E p \in Paths : DeleteFile(p)

Spec == Init /\ [][Next]_vars

\* --------------------------------------------------------- gate: actions

\* time passes
Tick ==
    /\ clock < MaxTime
    /\ clock' = clock + 1
    /\ recent' = Trailing(recent, clock + 1, window_seconds)
    /\ UNCHANGED <<max_requests, window_seconds, requests, valid_keys,
                   require_api_key, gate>>
    /\ UNCHANGED outsideGate

\* SecurityMiddleware.check_request(request)
CheckRequest(client, header, query, later) ==
    LET c == check_request(client, header, query, valid_keys,
                           require_api_key, requests, clock, later,
                           max_requests, window_seconds)
        log == IF c.allowed
               THEN [recent EXCEPT ![c.result.identifier] = Append(@, clock)]
               ELSE recent
    IN  /\ later = c.time
        /\ requests' = c.requests
        /\ gate' = c.result
        /\ clock' = c.time
        /\ recent' = Trailing(log, c.time, window_seconds)
        /\ UNCHANGED <<max_requests, window_seconds, valid_keys,
                       require_api_key>>
        /\ UNCHANGED outsideGate

\* RateLimiter.get_reset_time(identifier), called on its own
GetResetTime(identifier) ==
    /\ requests' = WithWindow(requests, identifier,
                              Window(requests, identifier))
    /\ gate' = GateResult("get_reset_time", 0, "", None, None, identifier,
                          clock,
                          get_reset_time(requests, identifier, clock,
                                         window_seconds))
    /\ UNCHANGED <<clock, max_requests, window_seconds, valid_keys,
                   require_api_key, recent>>
    /\ UNCHANGED outsideGate

\* APIKeyValidator.add_key(api_key, metadata)
AddKey(api_key, metadata) ==
    /\ valid_keys' = [k \in DOMAIN valid_keys \cup {api_key} |->
                        IF k = api_key THEN metadata ELSE valid_keys[k]]
    /\ UNCHANGED <<clock, max_requests, window_seconds, requests,
                   require_api_key, gate, recent>>
    /\ UNCHANGED outsideGate

\* APIKeyValidator.remove_key(api_key)
RemoveKey(api_key) ==
    /\ valid_keys' = [k \in DOMAIN valid_keys \ {api_key} |-> valid_keys[k]]
    /\ UNCHANGED <<clock, max_requests, window_seconds, requests,
                   require_api_key, gate, recent>>
    /\ UNCHANGED outsideGate

NextGate ==
    \/ Tick
    \/ \E client \in Hosts,
          header \in ApiKeys \cup {None, ""},
          query \in ApiKeys \cup {None},
          later \in clock .. (IF clock < MaxTime THEN clock + 1 ELSE clock) :
            CheckRequest(client, header, query, later)
    \/ \E identifier \in Identifiers : GetResetTime(identifier)
    \/ \E api_key \in ApiKeys, metadata \in Metadatas :
            AddKey(api_key, metadata)
    \/ \E api_key \in ApiKeys : RemoveKey(api_key)

SpecGate == InitGate /\ [][NextGate]_vars

\* ------------------------------------------------------ cache key: actions

\* The payloads whose cache keys are compared: every field takes two values.
KeyPayloads ==
    [agent: Agents, utterance: {<<"h", "i">>, LongText}, timestamp: {1, 2},
     engine: {"gtts", "system"}, voice_type: {"neutral", "male"},
     language: {"en", "fr"}, speed: {10, 15}]

InitKey ==
    /\ InitWebhook
    /\ InitGateWith(MaxCapacity, MaxWindow, FALSE)
    /\ InitUsageTracker
    /\ InitCallers
    /\ InitHandlers
    /\ InitAvatar
    /\ \E a \in KeyPayloads, b \in KeyPayloads :
          keyed = [a |-> a, b |-> b, key_a |-> Absent, key_b |-> Absent,
                   done |-> FALSE]

\* line 243, for each of the two requests
ComputeKeys ==
    /\ ~keyed.done
    /\ keyed' = [keyed EXCEPT !.key_a = KeyOf(keyed.a),
                              !.key_b = KeyOf(keyed.b),
                              !.done = TRUE]
    /\ UNCHANGED outsideKey

NextKey == ComputeKeys

SpecKey == InitKey /\ [][NextKey]_vars

\* -------------------------------------------------- usage tracker: actions

\* UsageTracker.record_request(identifier, character_count, success)
RecordRequest(identifier, character_count, success) ==
    /\ Len(recorded) < MaxRecords
    /\ stats' = record_request(stats, identifier, character_count, success,
                               clock)
    /\ usage' = [op |-> "record_request", identifier |-> identifier,
                 returned |-> << >>]
    /\ recorded' = Append(recorded,
                          [identifier |-> identifier,
                           character_count |-> character_count,
                           success |-> success])
    /\ UNCHANGED outsideUsage

\* UsageTracker.get_stats(identifier)
GetStats(identifier) ==
    /\ stats' = get_stats(stats, identifier).stats
    /\ usage' = [op |-> "get_stats", identifier |-> identifier,
                 returned |-> get_stats(stats, identifier).returned]
    /\ UNCHANGED recorded
    /\ UNCHANGED outsideUsage

\* UsageTracker.get_all_stats()
GetAllStats ==
    /\ stats' = get_all_stats(stats).stats
    /\ usage' = [op |-> "get_all_stats", identifier |-> None,
                 returned |-> get_all_stats(stats).returned]
    /\ UNCHANGED recorded
    /\ UNCHANGED outsideUsage

InitUsage ==
    /\ InitWebhook
    /\ InitGateWith(MaxCapacity, MaxWindow, FALSE)
    /\ keyed = NoKeys
    /\ InitUsageTracker
    /\ InitCallers
    /\ InitHandlers
    /\ InitAvatar

NextUsage ==
    \/ \E identifier \in Identifiers, character_count \in CharacterCounts,
          success \in BOOLEAN :
            RecordRequest(identifier, character_count, success)
    \/ \E identifier \in Identifiers : GetStats(identifier)
    \/ GetAllStats

SpecUsage == InitUsage /\ [][NextUsage]_vars

\* ---------------------------------------------------------- avatar: actions

\* the requests sent with and without avatar_id: one agent, the gtts
\* engine with its fallback, a blank text and a text
AvatarPayloads ==
    {r \in Payloads : /\ r.agent = "bot1"
                      /\ r.engine = "gtts"
                      /\ r.utterance \in {<<" ">>, <<"h", "i">>}}

\* POST /webhook with avatar_id in the payload
ReceiveWithAvatar(r, avatar_id, o1, o2) ==
    /\ request_count < MaxRequestCount
    /\ LET h == receive_utterance(r, avatar_id, cache, files, o1, o2)
           plain == receive_utterance(r, None, cache, files, o1, o2)
       IN /\ cache' = h.cache
          /\ files' = h.files
          /\ last' = LastOp("webhook", r, h.resp, h.invoked, << >>, FALSE,
                            Absent)
          /\ avatar' = [avatar EXCEPT !.request =
                          AvatarRequest(TRUE, avatar_id, Summary(plain.resp),
                                        plain.cache)]
    /\ request_count' = request_count + 1
    /\ UNCHANGED outsideAvatar

\* await bind_avatar_to_utterance(utterance_data, audio_file_path, service);
\* the function keeps no state, so one call at any point of a run shows
\* all it can do
BindAvatar(avatar_id, has_utterance, has_api_key, service) ==
    /\ ~avatar.bind.called
    /\ avatar' = [avatar EXCEPT !.bind =
                    AvatarBind(TRUE, avatar_id, has_utterance, has_api_key,
                               service,
                               bind_avatar_to_utterance(avatar_id,
                                   has_utterance, has_api_key, service))]
    /\ UNCHANGED webhookVars
    /\ UNCHANGED outsideAvatar

NextAvatar ==
    \/ \E r \in AvatarPayloads, avatar_id \in AvatarIds :
         \E o1 \in Outcomes(SelectEngine(r.engine)), o2 \in Outcomes("system") :
            ReceiveWithAvatar(r, avatar_id, o1, o2)
    \/ \E avatar_id \in AvatarIds, has_utterance \in BOOLEAN,
          has_api_key \in BOOLEAN, service \in ServiceOutcomes :
            BindAvatar(avatar_id, has_utterance, has_api_key, service)
    \/ ClearCache
    \/ \E p \in Paths : DeleteFile(p)

SpecAvatar == Init /\ [][NextAvatar]_vars

\* ------------------------------------------------ webhook threads: actions
\* receive_utterance and clear_cache run by the threads of the Flask server.
\* app_state["cache"] is a plain dict and no lock is taken, so the threads
\* interleave between the statements that touch the cache.  The engines
\* never raise here; the requests carry a text that passes line 225.

\* the requests sent concurrently: two agents, two engines, one text
ThreadPayloads ==
    {r \in Payloads : r.utterance = <<"h", "i">> /\ r.engine \in {"gtts", "system"}}

\* what an engine that does not raise can do
Succeeding(engine) == Outcomes(engine) \ {"fail"}

In(t, pc) == handlers[t].pc = pc
Step(t, pc) == handlers' = [handlers EXCEPT ![t].pc = pc]
\* lines 290-300
Succeed(t, engine) ==
    handlers' = [handlers EXCEPT ![t] =
        Waiting(Response(200, "success", handlers[t].path, engine,
                         handlers[t].cache_hit), "none")]
\* lines 302-312: except Exception
Fail(t, exception) ==
    handlers' = [handlers EXCEPT ![t] = Waiting(Error500, exception)]

\* lines 203-244: the request is counted, parsed and its key computed
BeginRequest(t, r) ==
    /\ In(t, "idle")
    /\ request_count < MaxRequestCount
    /\ request_count' = request_count + 1
    /\ handlers' = [handlers EXCEPT ![t] =
                      [pc |-> "in", req |-> r, path |-> Absent,
                       cache_hit |-> FALSE, resp |-> NoResponse,
                       raised |-> "none"]]
    /\ UNCHANGED <<cache, files>>
    /\ UNCHANGED outsideHandlers

\* line 247: if cache_key in app_state["cache"]
TestInCache(t) ==
    /\ In(t, "in")
    /\ IF KeyOf(handlers[t].req) \in DOMAIN cache
       THEN Step(t, "read")
       ELSE Step(t, "generate")
    /\ UNCHANGED <<cache, files, request_count>>
    /\ UNCHANGED outsideHandlers

\* line 248: cached_file = app_state["cache"][cache_key]; KeyError if the
\* entry has gone since line 247
ReadCached(t) ==
    /\ In(t, "read")
    /\ IF KeyOf(handlers[t].req) \in DOMAIN cache
       THEN handlers' = [handlers EXCEPT
                           ![t].pc = "exists",
                           ![t].path = cache[KeyOf(handlers[t].req)]]
       ELSE Fail(t, "KeyError")
    /\ UNCHANGED <<cache, files, request_count>>
    /\ UNCHANGED outsideHandlers

\* lines 249-251: if Path(cached_file).exists()
TestExists(t) ==
    /\ In(t, "exists")
    /\ IF Exists(files, handlers[t].path)
       THEN handlers' = [handlers EXCEPT ![t].pc = "respond",
                                         ![t].cache_hit = TRUE]
       ELSE Step(t, "del")
    /\ UNCHANGED <<cache, files, request_count>>
    /\ UNCHANGED outsideHandlers

\* line 254: del app_state["cache"][cache_key]; KeyError if the entry has
\* gone since line 247
DelCached(t) ==
    /\ In(t, "del")
    /\ LET key == KeyOf(handlers[t].req)
       IN IF key \in DOMAIN cache
          THEN /\ cache' = [k \in DOMAIN cache \ {key} |-> cache[k]]
               /\ Step(t, "generate")
          ELSE /\ Fail(t, "KeyError")
               /\ UNCHANGED cache
    /\ UNCHANGED <<files, request_count>>
    /\ UNCHANGED outsideHandlers

\* lines 258-264: the engine is selected and writes the audio file
GenerateAudio(t) ==
    /\ In(t, "generate")
    /\ LET r == handlers[t].req
       IN \E outcome \in Succeeding(SelectEngine(r.engine)) :
           LET res == generate_audio(SelectEngine(r.engine), r.utterance,
                                     Options(r), outcome, files)
           IN /\ files' = res.files
              /\ handlers' = [handlers EXCEPT ![t].pc = "put",
                                              ![t].path = res.path]
    /\ UNCHANGED <<cache, request_count>>
    /\ UNCHANGED outsideHandlers

\* line 265: app_state["cache"][cache_key] = audio_filepath
PutCached(t) ==
    /\ In(t, "put")
    /\ cache' = CachePut(cache, KeyOf(handlers[t].req), handlers[t].path)
    /\ Step(t, "respond")
    /\ UNCHANGED <<files, request_count>>
    /\ UNCHANGED outsideHandlers

\* lines 275-300: the response is built; engine.name raises on a hit
Respond(t) ==
    /\ In(t, "respond")
    /\ IF EngineNameRaises(handlers[t].cache_hit)
       THEN Fail(t, "UnboundLocalError")
       ELSE Succeed(t, SelectEngine(handlers[t].req.engine))
    /\ UNCHANGED <<cache, files, request_count>>
    /\ UNCHANGED outsideHandlers

\* DELETE /cache, served by one more thread
ClearWhileServing ==
    /\ cache # << >>
    /\ cache' = CacheClear(cache)
    /\ UNCHANGED <<files, request_count, handlers>>
    /\ UNCHANGED outsideHandlers

\* a file under audio_files/ is deleted from outside the service
DeleteWhileServing(p) ==
    /\ Exists(files, p)
    /\ files' = [files EXCEPT ![p] = NoFile]
    /\ UNCHANGED <<cache, request_count, handlers>>
    /\ UNCHANGED outsideHandlers

NextThreads ==
    \/ ClearWhileServing
    \/ \E p \in Paths : DeleteWhileServing(p)
    \/ \E t \in Threads :
          \/ \E r \in ThreadPayloads : BeginRequest(t, r)
          \/ TestInCache(t)
          \/ ReadCached(t)
          \/ TestExists(t)
          \/ DelCached(t)
          \/ GenerateAudio(t)
          \/ PutCached(t)
          \/ Respond(t)

SpecThreads == Init /\ [][NextThreads]_vars

\* ------------------------------------------- rate limiter threads: actions
\* RateLimiter.is_allowed, lines 37-49, run by several threads.  The class
\* takes no lock, so the threads interleave between its statements.

At(t, pc) == callers[t].pc = pc
Goto(t, pc) == callers' = [callers EXCEPT ![t].pc = pc]
Return(t, result) == callers' = [callers EXCEPT ![t] = Idle(result)]

\* lines 37-38: now = time.time(); window_start = now - self.window_seconds
CallIsAllowed(t, identifier) ==
    /\ At(t, "idle")
    /\ callers' = [callers EXCEPT ![t] =
                     [pc |-> "test", identifier |-> identifier,
                      now |-> clock, result |-> "none"]]
    /\ UNCHANGED <<requests, clock, recent>>
    /\ UNCHANGED outsideLimiter

\* line 41, left of "and": self.requests[identifier] is not empty
TestNotEmpty(t) ==
    /\ At(t, "test")
    /\ requests' = WithWindow(requests, callers[t].identifier,
                              Window(requests, callers[t].identifier))
    /\ IF Window(requests, callers[t].identifier) # <<>>
       THEN Goto(t, "head")
       ELSE Goto(t, "check")
    /\ UNCHANGED <<clock, recent>>
    /\ UNCHANGED outsideLimiter

\* line 41, right of "and": self.requests[identifier][0] < window_start;
\* IndexError if another thread has emptied the deque
TestHead(t) ==
    /\ At(t, "head")
    /\ LET w == Window(requests, callers[t].identifier)
       IN IF w = <<>> THEN Return(t, "IndexError")
          ELSE IF Head(w) < callers[t].now - window_seconds
          THEN Goto(t, "popleft")
          ELSE Goto(t, "check")
    /\ UNCHANGED <<requests, clock, recent>>
    /\ UNCHANGED outsideLimiter

\* line 42: self.requests[identifier].popleft()
PopLeft(t) ==
    /\ At(t, "popleft")
    /\ LET w == Window(requests, callers[t].identifier)
       IN IF w = <<>>
          THEN Return(t, "IndexError") /\ UNCHANGED requests
          ELSE /\ Goto(t, "test")
               /\ requests' = WithWindow(requests, callers[t].identifier,
                                         Tail(w))
    /\ UNCHANGED <<clock, recent>>
    /\ UNCHANGED outsideLimiter

\* line 45: len(self.requests[identifier]) < self.max_requests
CheckLimit(t) ==
    /\ At(t, "check")
    /\ IF UnderLimit(Len(Window(requests, callers[t].identifier)),
                     max_requests)
       THEN Goto(t, "append")
       ELSE Return(t, "denied")
    /\ UNCHANGED <<requests, clock, recent>>
    /\ UNCHANGED outsideLimiter

\* lines 46-47: self.requests[identifier].append(now); return True
AppendNow(t) ==
    /\ At(t, "append")
    /\ requests' = WithWindow(requests, callers[t].identifier,
                              Append(Window(requests, callers[t].identifier),
                                     callers[t].now))
    /\ recent' = Trailing([recent EXCEPT ![callers[t].identifier] =
                                     Append(@, callers[t].now)],
                          clock, window_seconds)
    /\ Return(t, "allowed")
    /\ UNCHANGED clock
    /\ UNCHANGED outsideLimiter

\* time passes while threads are inside is_allowed
TickThreads ==
    /\ clock < MaxTime
    /\ clock' = clock + 1
    /\ recent' = Trailing(recent, clock + 1, window_seconds)
    /\ UNCHANGED <<requests, callers>>
    /\ UNCHANGED outsideLimiter

InitLimiter ==
    /\ InitWebhook
    /\ keyed = NoKeys
    /\ InitUsageTracker
    /\ InitCallers
    /\ InitHandlers
    /\ InitAvatar
    /\ \E limit \in 1..MaxCapacity, window \in 1..MaxWindow :
          InitGateWith(limit, window, FALSE)

NextLimiter ==
    \/ TickThreads
    \/ \E t \in Threads :
          \/ \E identifier \in Hosts : CallIsAllowed(t, identifier)
          \/ TestNotEmpty(t)
          \/ TestHead(t)
          \/ PopLeft(t)
          \/ CheckLimit(t)
          \/ AppendNow(t)

SpecLimiter == InitLimiter /\ [][NextLimiter]_vars

\* ------------------------------------------------------- webhook: claims

\* the step is a POST /webhook; last' holds its request and response
WebhookStep == request_count' = request_count + 1

\* C1: a request whose five key fields equal those of an earlier successful
\* request, while the cache has not been cleared and the cached file still
\* exists (that is: its key has an entry and the entry's file exists), gets
\* a 200 with cache_hit = true and the cached audio_file, and no engine is
\* invoked.
C1_RepeatedRequestIsCacheHit ==
    [][ (/\ WebhookStep
         /\ KeyOf(last'.req) \in DOMAIN cache
         /\ Exists(files, cache[KeyOf(last'.req)]))
        => (/\ last'.invoked = <<>>
            /\ last'.resp.code = 200
            /\ last'.resp.cache_hit = TRUE
            /\ last'.resp.audio_file = cache[KeyOf(last'.req)]) ]_vars

\* C2: when the engine selected on a miss is not the system engine and it
\* raises, the system engine is called exactly once after it; the request
\* succeeds if that call succeeds and fails with 500 if it raises; no
\* request makes more than two engine calls.
C2_SingleFallbackToDefault ==
    /\ Len(last.invoked) <= 2
    /\ (/\ last.op = "webhook"
        /\ last.invoked # <<>>
        /\ last.invoked[1].engine # "system"
        /\ last.invoked[1].raised)
       => (/\ Len(last.invoked) = 2
           /\ last.invoked[2].engine = "system"
           /\ (~last.invoked[2].raised => last.resp.code = 200)
           /\ (last.invoked[2].raised => last.resp.code = 500))

\* a request whose gtts/openai call raised and whose fallback succeeded
C2_Witness ==
    /\ last.op = "webhook"
    /\ Len(last.invoked) = 2
    /\ last.invoked[1].engine = "gtts"
    /\ last.invoked[1].raised
    /\ ~last.invoked[2].raised
    /\ last.resp.code = 200

\* C3: when the engine selected for a request is the system engine, asked
\* for by name or substituted for an unknown name, and it raises, the
\* request fails with 500 after exactly one engine call.
C3_DefaultNeverRetriedOnItself ==
    (/\ last.op = "webhook"
     /\ last.invoked # <<>>
     /\ last.invoked[1].engine = "system"
     /\ last.invoked[1].raised)
    => (Len(last.invoked) = 1 /\ last.resp.code = 500)

\* C10: a request whose key has an entry with path p is a hit returning p
\* while p exists; if p is gone, the request removes the stale entry, calls
\* an engine, answers cache_hit = false and stores the new path under the
\* key.
C10_EntryServedUntilFileDeleted ==
    [][ (WebhookStep /\ KeyOf(last'.req) \in DOMAIN cache)
        => LET k == KeyOf(last'.req)
           IN IF Exists(files, cache[k])
              THEN /\ last'.resp.code = 200
                   /\ last'.resp.cache_hit = TRUE
                   /\ last'.resp.audio_file = cache[k]
              ELSE /\ last'.invoked # <<>>
                   /\ (last'.resp.code = 200 =>
                         /\ last'.resp.cache_hit = FALSE
                         /\ k \in DOMAIN cache'
                         /\ cache'[k] = last'.resp.audio_file)
                   /\ (last'.resp.code # 200 => k \notin DOMAIN cache') ]_vars

\* the step is a DELETE /cache
ClearStep == last'.op = "clear" /\ last.op # "clear"

\* a text without any character other than whitespace
WhitespaceOnly(text) == \A i \in 1..Len(text) : text[i] = " "

\* the request of last' reaches the cache lookup and misses
MissStep ==
    /\ WebhookStep
    /\ ~WhitespaceOnly(last'.req.utterance)
    /\ (KeyOf(last'.req) \in DOMAIN cache
        => ~Exists(files, cache[KeyOf(last'.req)]))

\* some engine call of the request of last' returned a file
SomeCallReturned ==
    \E i \in 1..Len(last'.invoked) : ~last'.invoked[i].raised

\* C11: DELETE /cache removes every cache entry and deletes no file; a
\* request whose key has no entry, as after the DELETE, calls an engine and
\* is never answered as a hit (cache_hit = false once an engine returns a
\* file), whether or not the file of the removed entry still exists.
C11_ClearForcesRecompute ==
    [][ /\ ClearStep => (cache' = << >> /\ files' = files)
        /\ (/\ WebhookStep
            /\ ~WhitespaceOnly(last'.req.utterance)
            /\ KeyOf(last'.req) \notin DOMAIN cache)
           => (/\ last'.invoked # <<>>
               /\ (SomeCallReturned
                    => last'.resp.code = 200 /\ last'.resp.cache_hit = FALSE)
               /\ (last'.resp.code = 200 => last'.resp.cache_hit = FALSE)) ]_vars

\* the request after a DELETE /cache has a key whose entry the DELETE
\* removed, the file of that entry was still there when it was handled, and
\* the request was synthesized afresh
C11_Witness ==
    /\ last.op = "webhook"
    /\ last.recached
    /\ last.invoked # <<>>
    /\ last.resp.code = 200
    /\ last.resp.cache_hit = FALSE
    /\ Exists(files, last.old_path)

\* C13: a request whose text is empty or whitespace only is answered 400;
\* the cache and the files are unchanged and no engine is called.
C13_EmptyTextRejectedFirst ==
    [][ (WebhookStep /\ WhitespaceOnly(last'.req.utterance))
        => (/\ last'.resp.code = 400
            /\ last'.invoked = <<>>
            /\ cache' = cache
            /\ files' = files) ]_vars

\* a whitespace-only request has been refused while the cache held an entry
C13_Witness ==
    /\ last.op = "webhook"
    /\ last.req.utterance = <<" ">>
    /\ last.resp.code = 400
    /\ cache # << >>

\* C14: a request whose text is longer than the length limit is answered
\* 400, calls no engine and creates no cache entry.
C14_OversizedTextRejected ==
    [][ (WebhookStep /\ Len(last'.req.utterance) > MaxLength)
        => (/\ last'.resp.code = 400
            /\ last'.invoked = <<>>
            /\ cache' = cache) ]_vars

\* C15: a request that reaches the cache lookup or an engine has been
\* checked and allowed by the access control gate.
C15_GateBeforeDispatcher ==
    (last.op = "webhook" /\ last.resp.code # 400)
    => (gate.op = "check_request" /\ gate.code = 200)

\* C20: a request that names an engine that is not registered, on a miss,
\* calls the system engine only; once a call returns a file the answer is a
\* success with engine_used = "system" and cache_hit = false, and the file
\* is stored under the key computed from the requested name.
C20_UnknownEngineUsesDefault ==
    [][ (MissStep /\ last'.req.engine \notin tts_engines)
        => (/\ last'.invoked # <<>>
            /\ \A i \in 1..Len(last'.invoked) :
                  last'.invoked[i].engine = "system"
            /\ SomeCallReturned
               => (/\ last'.resp.code = 200
                   /\ last'.resp.engine_used = "system"
                   /\ last'.resp.cache_hit = FALSE
                   /\ generate_cache_key(last'.req.utterance,
                          [Options(last'.req) EXCEPT !.engine = "nonexistent"])
                        \in DOMAIN cache'
                   /\ cache'[KeyOf(last'.req)] = last'.resp.audio_file
                   /\ Exists(files', last'.resp.audio_file))) ]_vars

\* an unknown engine name has been served by the system engine
C20_Witness ==
    /\ last.op = "webhook"
    /\ last.req.engine = "nonexistent"
    /\ last.resp.code = 200
    /\ last.resp.engine_used = "system"
    /\ last.invoked = <<[engine |-> "system", raised |-> FALSE]>>
    /\ KeyOf(last.req) \in DOMAIN cache
    /\ cache[KeyOf(last.req)] = last.resp.audio_file

\* ------------------------------------------------------ cache key: claims

\* the two requests agree on text, engine, voice_type, language and speed
SameFiveFields(a, b) ==
    /\ a.utterance = b.utterance
    /\ a.engine = b.engine
    /\ a.voice_type = b.voice_type
    /\ a.language = b.language
    /\ a.speed = b.speed

\* C12: two requests get the same cache key exactly if they agree on text,
\* engine, voice_type, language and speed, whatever their agent and
\* timestamp.
C12_KeyIsFunctionOfFiveFields ==
    keyed.done
    => (SameFiveFields(keyed.a, keyed.b) <=> keyed.key_a = keyed.key_b)

\* two requests that differ in agent and timestamp only got the same key
C12_Witness ==
    /\ keyed.done
    /\ keyed.a.agent # keyed.b.agent
    /\ keyed.a.timestamp # keyed.b.timestamp
    /\ SameFiveFields(keyed.a, keyed.b)
    /\ keyed.key_a = keyed.key_b

\* -------------------------------------------------- usage tracker: claims

\* the step is a call of record_request; its arguments end recorded'
RecordStep == Len(recorded') = Len(recorded) + 1

\* the sum of the character counts recorded for an identifier
RECURSIVE SumCharacters(_, _)
SumCharacters(calls, identifier) ==
    IF calls = << >> THEN 0
    ELSE SumCharacters(Tail(calls), identifier)
         + (IF Head(calls).identifier = identifier
            THEN Head(calls).character_count ELSE 0)

\* C18: for every identifier requests = audio_files + errors and characters
\* is the sum of the recorded character counts; a record call adds one to
\* requests and to exactly one of audio_files (success) and errors
\* (failure); no counter ever decreases.
C18_UsageCountersConsistent ==
    [][ /\ \A i \in DOMAIN stats' :
              /\ stats'[i].requests = stats'[i].audio_files + stats'[i].errors
              /\ stats'[i].characters = SumCharacters(recorded', i)
        /\ \A i \in DOMAIN stats :
              /\ i \in DOMAIN stats'
              /\ stats'[i].requests >= stats[i].requests
              /\ stats'[i].characters >= stats[i].characters
              /\ stats'[i].audio_files >= stats[i].audio_files
              /\ stats'[i].errors >= stats[i].errors
        /\ RecordStep
           => LET call == recorded'[Len(recorded')]
                  old == IF call.identifier \in DOMAIN stats
                         THEN stats[call.identifier]
                         ELSE [requests |-> 0, audio_files |-> 0, errors |-> 0]
                  new == stats'[call.identifier]
              IN /\ new.requests = old.requests + 1
                 /\ call.success
                    => (/\ new.audio_files = old.audio_files + 1
                        /\ new.errors = old.errors)
                 /\ ~call.success
                    => (/\ new.errors = old.errors + 1
                        /\ new.audio_files = old.audio_files) ]_vars

\* an identifier with a recorded success and a recorded failure
C18_Witness ==
    \E i \in DOMAIN stats :
        /\ stats[i].audio_files >= 1
        /\ stats[i].errors >= 1
        /\ stats[i].requests = 2
        /\ stats[i].characters = 3

\* the step is a call of get_stats or get_all_stats
GetStep ==
    /\ usage'.op \in {"get_stats", "get_all_stats"}
    /\ (usage' # usage \/ stats' # stats)

\* C19: get_stats and get_all_stats leave the stats table unchanged, for a
\* known and for a never-seen identifier.
C19_GettersAreReadOnly ==
    [][ GetStep => stats' = stats ]_vars

\* operation l is a request whose first engine raised and whose fallback
\* to the system engine returned a file
FellBack(l) ==
    /\ l.op = "webhook"
    /\ Len(l.invoked) = 2
    /\ l.invoked[1].raised
    /\ ~l.invoked[2].raised

\* C25: a request whose engine raised and whose fallback succeeded is
\* answered 200 with engine_used = system and its file stored under the
\* request's own key; the same request sent again, while that entry and its
\* file are there, is answered 200 from the entry with no engine call.
C25_FallbackResultIsCached ==
    [][ /\ (WebhookStep /\ FellBack(last'))
            => (/\ last'.resp.code = 200
                /\ last'.resp.engine_used = "system"
                /\ last'.resp.cache_hit = FALSE
                /\ KeyOf(last'.req) \in DOMAIN cache'
                /\ cache'[KeyOf(last'.req)] = last'.resp.audio_file
                /\ last'.resp.audio_file[3] \in {".wav", "_silent.wav"})
        /\ (/\ WebhookStep
            /\ FellBack(last)
            /\ last'.req = last.req
            /\ KeyOf(last.req) \in DOMAIN cache
            /\ Exists(files, cache[KeyOf(last.req)]))
            => (/\ last'.invoked = <<>>
                /\ last'.resp.code = 200
                /\ last'.resp.cache_hit = TRUE
                /\ last'.resp.audio_file = cache[KeyOf(last.req)]) ]_vars

\* the first half of C25 only: what the request that fell back stores and
\* answers
FallbackStored ==
    [][ (WebhookStep /\ FellBack(last'))
        => (/\ last'.resp.code = 200
            /\ last'.resp.engine_used = "system"
            /\ cache'[KeyOf(last'.req)] = last'.resp.audio_file) ]_vars

\* the text that cache key k was computed from: the "text" item of the
\* dumped cache_data
TextOfKey(k) == k[2][4][2]

\* C24: every cache entry whose file exists points to a file that holds the
\* audio of the text of its own key (or the silent audio written for it).
C24_EntryHoldsAudioOfItsKey ==
    \A k \in DOMAIN cache :
        Exists(files, cache[k])
            => (files[cache[k]] = Silence \/ files[cache[k]] = TextOfKey(k))

\* ----------------------------------------------------------- avatar: claims

\* C21: a webhook request gets the same code, status and cache_hit and
\* leaves the same cache as the same request without avatar_id; and
\* bind_avatar_to_utterance never raises, returns status skipped when no
\* avatar_id is given, and returns status error when an avatar_id is given
\* and the avatar service has no API key, answers an error, or fails.
C21_AvatarNeverAltersOutcome ==
    /\ (last.op = "webhook" /\ avatar.request.called)
        => (/\ last.resp.code = avatar.request.plain.code
            /\ last.resp.status = avatar.request.plain.status
            /\ last.resp.cache_hit = avatar.request.plain.cache_hit
            /\ cache = avatar.request.plain_cache)
    /\ avatar.bind.called
        => (/\ ~avatar.bind.returned.raised
            /\ ~Truthy(avatar.bind.avatar_id)
                  => avatar.bind.returned.status = "skipped"
            /\ (/\ Truthy(avatar.bind.avatar_id)
                /\ (~avatar.bind.has_api_key
                      \/ avatar.bind.service \in ServiceFails))
                  => avatar.bind.returned.status = "error")

\* a request with an avatar_id has been answered 200, and a bind call with
\* an avatar_id, whose service connection failed, has returned status error
C21_Witness ==
    /\ last.op = "webhook"
    /\ avatar.request.called
    /\ Truthy(avatar.request.avatar_id)
    /\ last.resp.code = 200
    /\ avatar.bind.called
    /\ Truthy(avatar.bind.avatar_id)
    /\ avatar.bind.has_api_key
    /\ avatar.bind.service = "connection_fails"
    /\ avatar.bind.returned.status = "error"

\* ------------------------------------------------ webhook threads: claims

\* C16: under any interleaving of webhook requests and DELETE /cache calls,
\* with engines that succeed, every request with a valid text ends with a
\* success response.
C16_ConcurrentRequestsSucceed ==
    \A t \in Threads :
        In(t, "idle") /\ handlers[t].resp.code # 0
            => handlers[t].resp.code = 200

\* no request ends on a KeyError raised by the cache dict
NoKeyError == \A t \in Threads : handlers[t].raised # "KeyError"

\* ------------------------------------------- rate limiter threads: claims

\* C17: under any interleaving of is_allowed calls for one identifier, the
\* identifier's deque never holds more than max_requests timestamps and at
\* most max_requests calls are allowed within one window.
C17_ConcurrentCallsRespectCapacity ==
    \A i \in Identifiers :
        /\ Len(Window(requests, i)) <= max_requests
        /\ Len(recent[i]) <= max_requests

\* ---------------------------------------------------------- gate: claims

\* the step is a call of check_request; gate' holds what it returned
CheckStep ==
    /\ gate'.op = "check_request"
    /\ (gate' # gate \/ requests' # requests)

\* the step is a check_request that reached the rate limiter
LimiterStep == CheckStep /\ gate'.code # 401

\* C4: no identifier's deque ever holds more than max_requests timestamps,
\* and the number of allowed calls whose time lies in the trailing interval
\* [clock - window_seconds, clock] never exceeds max_requests.  (An interval
\* that ends at an earlier time was the trailing interval then, and no later
\* call adds a time to it.)
C4_WindowNeverExceedsCapacity ==
    /\ \A i \in DOMAIN requests : Len(requests[i]) <= max_requests
    /\ \A i \in DOMAIN recent : Len(recent[i]) <= max_requests

\* an identifier whose quota is used up and that has just been denied
C4_Witness ==
    /\ gate.op = "check_request"
    /\ gate.code = 429
    /\ Len(Window(requests, gate.identifier)) = max_requests
    /\ Len(recent[gate.identifier]) = max_requests

\* C5: if an identifier's deque holds max_requests timestamps, the latest
\* of them t, a request of that identifier at a time at or after
\* t + window_seconds is allowed.
C5_AllowedAgainAfterWindow ==
    [][ (/\ LimiterStep
         /\ Len(Window(requests, gate'.identifier)) = max_requests
         /\ gate'.at >= Window(requests, gate'.identifier)[max_requests]
                          + window_seconds)
        => gate'.code = 200 ]_vars

\* C6: after a denial, at the instant of the denial, get_reset_time of the
\* identifier is strictly positive and is the time until the oldest
\* timestamp of its deque leaves the window; get_reset_time of an
\* identifier with an empty deque is 0.
C6_ResetTimePositiveOnDenial ==
    /\ (gate.op = "check_request" /\ gate.code = 429 /\ gate.at = clock)
       => (/\ get_reset_time(requests, gate.identifier, clock,
                             window_seconds) > 0
           /\ get_reset_time(requests, gate.identifier, clock,
                             window_seconds)
                = Head(requests[gate.identifier]) + window_seconds - clock)
    /\ \A i \in Identifiers :
          Window(requests, i) = <<>>
          => get_reset_time(requests, i, clock, window_seconds) = 0

\* C7: a request whose API key passes the key check is allowed or denied by
\* the deque of the key alone, and the deque of its network address is left
\* as it was.
C7_KeyWindowOnly ==
    [][ (LimiterStep /\ Truthy(gate'.api_key))
        => (/\ gate'.identifier = gate'.api_key
            /\ (gate'.code = 200
                 <=> Len(Prune(Window(requests, gate'.api_key),
                               gate'.at - window_seconds)) < max_requests)
            /\ Window(requests', gate'.client_ip)
                 = Window(requests, gate'.client_ip)
            /\ (gate'.client_ip \in DOMAIN requests'
                 <=> gate'.client_ip \in DOMAIN requests)) ]_vars

\* a keyed request is allowed while the quota of its address is used up
C7_Witness ==
    /\ gate.op = "check_request"
    /\ gate.code = 200
    /\ Truthy(gate.api_key)
    /\ Len(Prune(Window(requests, gate.client_ip),
                 clock - window_seconds)) = max_requests

\* C8: a supplied key that the validator does not hold is answered 401; no
\* key while a key is required is answered 401; no key while keys are
\* optional goes on to the rate limiter with the client address as the
\* identifier.
C8_KeyCheckOutcomes ==
    [][ CheckStep
        => (/\ (Truthy(gate'.api_key) /\ gate'.api_key \notin DOMAIN valid_keys)
                => (gate'.code = 401 /\ requests' = requests)
            /\ (~Truthy(gate'.api_key) /\ require_api_key)
                => (gate'.code = 401 /\ requests' = requests)
            /\ (~Truthy(gate'.api_key) /\ ~require_api_key)
                => (/\ gate'.code # 401
                    /\ gate'.identifier = gate'.client_ip
                    /\ gate'.client_ip \in DOMAIN requests')) ]_vars

\* an unknown key has just been refused
C8_Witness ==
    /\ gate.op = "check_request"
    /\ gate.code = 401
    /\ gate.detail = "Invalid API key"
    /\ Truthy(gate.api_key)
    /\ gate.api_key \notin DOMAIN valid_keys

\* C9: after any add_key and remove_key calls, a request that supplies key
\* k passes the key check exactly if k is in valid_keys, whatever metadata
\* it was added with.
C9_KeyPassesIffInKeySet ==
    [][ (CheckStep /\ Truthy(gate'.api_key))
        => (gate'.code # 401 <=> gate'.api_key \in DOMAIN valid_keys) ]_vars

\* C22: a request answered 401 by the key check leaves every deque of the
\* rate limiter as it was: no timestamp is recorded for the key supplied or
\* for the network address, and no deque is created for them.
C22_RejectedKeyUsesNoQuota ==
    [][ (gate'.op = "check_request" /\ gate'.code = 401 /\ gate' # gate)
        => requests' = requests ]_vars

\* a request with a refused key has been answered 401 and neither the key
\* nor the address has a deque
C22_Witness ==
    /\ gate.op = "check_request"
    /\ gate.code = 401
    /\ Truthy(gate.api_key)
    /\ gate.api_key \notin DOMAIN requests
    /\ gate.client_ip \notin DOMAIN requests

\* the timestamps of w are in non-decreasing order
NonDecreasing(w) == \A j \in 1..(Len(w) - 1) : w[j] <= w[j + 1]

\* after is what is left of deque before once some of its first entries
\* are removed, with at most one timestamp added at the end
FrontRemoved(before, after) ==
    \E k \in 0..Len(before) :
        LET rest == SubSeq(before, k + 1, Len(before))
        IN after = rest \/ (after # <<>> /\ SubSeq(after, 1, Len(after) - 1) = rest)

\* the step is a check_request that the rate limiter denied
DeniedStep == CheckStep /\ gate'.code = 429

\* C23: a denied call leaves the deque of its identifier as it was apart
\* from the expired timestamps pruned from its front, and leaves the other
\* deques alone, so at every later time the identifier is allowed exactly
\* if it would have been without the denied call; in every step the
\* timestamps of a deque stay in non-decreasing order and are removed only
\* from the front.
C23_DenialRecordsNothing ==
    [][ /\ DeniedStep =>
            /\ Window(requests', gate'.identifier)
                 = Prune(Window(requests, gate'.identifier),
                         gate'.at - window_seconds)
            /\ \A i \in Identifiers \ {gate'.identifier} :
                  /\ Window(requests', i) = Window(requests, i)
                  /\ (i \in DOMAIN requests' <=> i \in DOMAIN requests)
            /\ \A at \in gate'.at .. (MaxTime + MaxWindow + 1) :
                  is_allowed(requests', gate'.identifier, at, max_requests,
                             window_seconds).allowed
                    = is_allowed(requests, gate'.identifier, at, max_requests,
                                 window_seconds).allowed
        /\ \A i \in DOMAIN requests :
              /\ i \in DOMAIN requests'
              /\ FrontRemoved(requests[i], requests'[i])
        /\ \A i \in DOMAIN requests' : NonDecreasing(requests'[i]) ]_vars

\* an identifier has been denied at a later time than its oldest timestamp,
\* with less than a whole window left to wait
C23_Witness ==
    /\ gate.op = "check_request"
    /\ gate.code = 429
    /\ gate.at > Head(Window(requests, gate.identifier))
    /\ gate.reset_time < window_seconds

====
